---- MODULE Spec2Model ----
(***************************************************************************)
(* Model of the dice-notation evaluator of dicewizard-app/roll:            *)
(* lex -> parse -> (countRolls > maxRolls ?) -> evaluate, as implemented   *)
(* in src/src/roll.test.ts.                                                *)
(*                                                                         *)
(* A source string is a sequence of one-character strings.  Offsets and    *)
(* token indices are zero-based as in the source, so the character at      *)
(* offset i of expression e is e[i + 1].                                   *)
(*                                                                         *)
(* A JavaScript number is modelled as a fraction [n, d] in lowest terms    *)
(* with d >= 0: d > 0 is the exact rational n/d, and d = 0 stands for      *)
(* Infinity ([1, 0]), -Infinity ([-1, 0]) and NaN ([0, 0]).  Rounding of   *)
(* IEEE doubles and the sign of zero are not modelled.                     *)
(***************************************************************************)
EXTENDS Integers, Sequences, FiniteSets, TLC

\* ------------------------------------------------------------------ numbers

Abs(x) == IF x < 0 THEN -x ELSE x

Sign(x) == IF x < 0 THEN -1 ELSE IF x > 0 THEN 1 ELSE 0

RECURSIVE Gcd(_, _)
Gcd(a, b) == IF b = 0 THEN a ELSE Gcd(b, a % b)

\* the number n/d, normalised
Num(n, d) ==
    IF d = 0 THEN [n |-> Sign(n), d |-> 0]
    ELSE LET g == Gcd(Abs(n), Abs(d))
             s == Sign(d)
         IN [n |-> (s * n) \div g, d |-> (s * d) \div g]

IntNum(k) == [n |-> k, d |-> 1]

NaN == [n |-> 0, d |-> 0]

\* a + b
Plus(a, b) ==
    IF a.d = 0 /\ b.d = 0 THEN (IF a.n = b.n THEN a ELSE NaN)
    ELSE IF a.d = 0 THEN a
    ELSE IF b.d = 0 THEN b
    ELSE Num(a.n * b.d + b.n * a.d, a.d * b.d)

Negate(a) == [n |-> -a.n, d |-> a.d]

\* a - b
Minus(a, b) == Plus(a, Negate(b))

\* a * b
Star(a, b) == Num(a.n * b.n, a.d * b.d)

Reciprocal(a) == IF a.n < 0 THEN [n |-> -a.d, d |-> -a.n] ELSE [n |-> a.d, d |-> a.n]

\* a / b (x / 0 is an infinity or NaN, never an error)
Slash(a, b) == Star(a, Reciprocal(b))

\* ToIntegerOrInfinity of a finite number: truncation towards zero
Trunc(x) == IF x.n >= 0 THEN x.n \div x.d ELSE -((-x.n) \div x.d)

Min(a, b) == IF a < b THEN a ELSE b

Max(a, b) == IF a > b THEN a ELSE b

\* ------------------------------------------------------------------ lexer

DigitChars == {"0", "1", "2", "3", "4", "5", "6", "7", "8", "9"}

\* the characters /\s/ matches, as far as a model input can hold them
WhitespaceChars == {" ", "\t", "\n", "\r", "\f"}

isDigit(char) == char \in DigitChars

DigitValue(char) ==
    CASE char = "0" -> 0 [] char = "1" -> 1 [] char = "2" -> 2 [] char = "3" -> 3
      [] char = "4" -> 4 [] char = "5" -> 5 [] char = "6" -> 6 [] char = "7" -> 7
      [] char = "8" -> 8 [] char = "9" -> 9

\* expression[offset]; past the end JavaScript yields undefined
CharAt(expression, offset) ==
    IF offset >= 0 /\ offset < Len(expression) THEN expression[offset + 1] ELSE "undefined"

\* expression.slice(start, end)
Slice(expression, start, end) == SubSeq(expression, start + 1, end)

\* parseInt of a run of decimal digits
RECURSIVE parseInt(_)
parseInt(number) ==
    IF number = <<>> THEN 0
    ELSE 10 * parseInt(SubSeq(number, 1, Len(number) - 1)) + DigitValue(number[Len(number)])

\* the offset just past the maximal run of digits starting at offset
RECURSIVE DigitRunEnd(_, _)
DigitRunEnd(expression, offset) ==
    IF isDigit(CharAt(expression, offset)) THEN DigitRunEnd(expression, offset + 1) ELSE offset

Token(type, lexeme, offset) == [type |-> type, lexeme |-> lexeme, offset |-> offset]

NumberToken(lexeme, literal, offset) ==
    [type |-> "NUMBER", lexeme |-> lexeme, literal |-> literal, offset |-> offset]

DiceNotationError(message, expression, offset) ==
    [name |-> "DiceNotationError", message |-> message, expression |-> expression,
     offset |-> offset]

SingleCharType(char) ==
    CASE char = "+" -> "PLUS" [] char = "-" -> "MINUS" [] char = "*" -> "STAR"
      [] char = "/" -> "SLASH" [] char = "(" -> "PAREN_OPEN" [] char = ")" -> "PAREN_CLOSE"

\* the branch of lex taken for the character k
LexKeep(expression, offset, tokens, errors) ==
    LET next == CharAt(expression, offset + 1) IN
    IF next = "h"
    THEN [offset |-> offset + 2, errors |-> errors,
          tokens |-> Append(tokens, Token("KEEP_HIGHEST", <<"k", "h">>, offset + 1))]
    ELSE IF next = "l"
    THEN [offset |-> offset + 2, errors |-> errors,
          tokens |-> Append(tokens, Token("KEEP_LOWEST", <<"k", "h">>, offset + 1))]
    ELSE [offset |-> offset + 1, tokens |-> tokens,
          errors |-> Append(errors, DiceNotationError(<<"Unexpected", "k">>, expression,
                                                     offset + 1))]

\* one iteration of the scanning loop of lex
LexStep(expression, offset, tokens, errors) ==
    LET char == expression[offset + 1] IN
    IF char \in WhitespaceChars
    THEN [offset |-> offset + 1, tokens |-> tokens, errors |-> errors]
    ELSE IF isDigit(char)
    THEN LET end == DigitRunEnd(expression, offset)
             number == Slice(expression, offset, end)
         IN [offset |-> end, errors |-> errors,
             tokens |-> Append(tokens, NumberToken(number, parseInt(number), offset))]
    ELSE IF char = "d"
    THEN [offset |-> offset + 1, errors |-> errors,
          tokens |-> Append(tokens, Token("DICE", Slice(expression, offset, offset + 1), offset))]
    ELSE IF char \in {"+", "-", "*", "/", "(", ")"}
    THEN [offset |-> offset + 1, errors |-> errors,
          tokens |-> Append(tokens, Token(SingleCharType(char), <<char>>, offset))]
    ELSE IF char = "k"
    THEN LexKeep(expression, offset, tokens, errors)
    ELSE IF char = "h"
    THEN [offset |-> offset + 1, errors |-> errors,
          tokens |-> Append(tokens, Token("KEEP_HIGHEST", <<char>>, offset))]
    ELSE IF char = "l"
    THEN [offset |-> offset + 1, errors |-> errors,
          tokens |-> Append(tokens, Token("KEEP_LOWEST", <<char>>, offset))]
    ELSE [offset |-> offset + 1, tokens |-> tokens,
          errors |-> Append(errors, DiceNotationError(<<"Unexpected", char>>, expression, offset))]

\* lex raising the last error it collected instead of the first
LexFinishLastError(expression, offset, tokens, errors) ==
    IF Len(errors) > 0
    THEN [thrown |-> TRUE, error |-> errors[Len(errors)], tokens |-> <<>>]
    ELSE [thrown |-> FALSE, error |-> DiceNotationError(<<>>, <<>>, 0),
          tokens |-> Append(tokens, Token("EOF", <<>>, offset))]

\* what lex does once the scan is over: throw errors[0], or append EOF and return
LexFinish(expression, offset, tokens, errors) ==
    IF Len(errors) > 0
    THEN [thrown |-> TRUE, error |-> errors[1], tokens |-> <<>>]
    ELSE [thrown |-> FALSE, error |-> DiceNotationError(<<>>, <<>>, 0),
          tokens |-> Append(tokens, Token("EOF", <<>>, offset))]

RECURSIVE LexLoop(_, _, _, _)
LexLoop(expression, offset, tokens, errors) ==
    IF offset < Len(expression)
    THEN LET s == LexStep(expression, offset, tokens, errors)
         IN LexLoop(expression, s.offset, s.tokens, s.errors)
    ELSE LexFinish(expression, offset, tokens, errors)

lex(expression) == LexLoop(expression, 0, <<>>, <<>>)

\* ------------------------------------------------------------------ parser

NumberNode(value) == [type |-> "NUMBER", value |-> value]

DiceNode(numDice, numSides) == [type |-> "DICE", numDice |-> numDice, numSides |-> numSides]

BinaryOpNode(left, operator, right) ==
    [type |-> "BINARY_OP", left |-> left, operator |-> operator, right |-> right]

DiceModifierNode(left, operator, right) ==
    [type |-> "DICE_BINARY_OP", left |-> left, operator |-> operator, right |-> right]

GroupingNode(expression) == [type |-> "GROUPING", expression |-> expression]

NoNode == [type |-> "NONE"]

\* tokens[current]
peek(tokens, current) == tokens[current + 1]

\* tokens[current + 1]?.type
LookaheadType(tokens, current) ==
    IF current + 2 <= Len(tokens) THEN tokens[current + 2].type ELSE "undefined"

\* a production that returned node, leaving the cursor at current
Parsed(node, current) ==
    [thrown |-> FALSE, node |-> node, current |-> current,
     error |-> [name |-> "Error", message |-> "", type |-> "", offset |-> 0]]

\* throw new Error(`${message} ${type} at offset ${offset}`), raised at cursor current
ParseError(message, type, offset, current) ==
    [thrown |-> TRUE, node |-> NoNode, current |-> current,
     error |-> [name |-> "Error", message |-> message, type |-> type, offset |-> offset]]

\* expect(type): the cursor after the token, or the error thrown
expect(tokens, current, type) ==
    IF peek(tokens, current).type = type
    THEN Parsed(NoNode, current + 1)
    ELSE ParseError("Expected", type, peek(tokens, current).offset, current)

RECURSIVE term(_, _), TermLoop(_, _, _), factor(_, _), FactorLoop(_, _, _),
          primary(_, _), dice(_, _)

\* term taking the whole rest as the right operand: + and - grouping from the right
TermLoopRightAssociative(tokens, expr, current) ==
    IF peek(tokens, current).type \in {"MINUS", "PLUS"}
    THEN LET operator == peek(tokens, current).type
             right == term(tokens, current + 1)
         IN IF right.thrown THEN right
            ELSE Parsed(BinaryOpNode(expr, operator, right.node), right.current)
    ELSE Parsed(expr, current)

\* the while (match("MINUS", "PLUS")) loop of term
TermLoop(tokens, expr, current) ==
    IF peek(tokens, current).type \in {"MINUS", "PLUS"}
    THEN LET operator == peek(tokens, current).type
             right == factor(tokens, current + 1)
         IN IF right.thrown THEN right
            ELSE TermLoop(tokens, BinaryOpNode(expr, operator, right.node), right.current)
    ELSE Parsed(expr, current)

term(tokens, current) ==
    LET expr == factor(tokens, current)
    IN IF expr.thrown THEN expr ELSE TermLoop(tokens, expr.node, expr.current)

\* the while (match("STAR", "SLASH")) loop of factor
FactorLoop(tokens, expr, current) ==
    IF peek(tokens, current).type \in {"STAR", "SLASH"}
    THEN LET operator == peek(tokens, current).type
             right == primary(tokens, current + 1)
         IN IF right.thrown THEN right
            ELSE FactorLoop(tokens, BinaryOpNode(expr, operator, right.node), right.current)
    ELSE Parsed(expr, current)

factor(tokens, current) ==
    LET expr == primary(tokens, current)
    IN IF expr.thrown THEN expr ELSE FactorLoop(tokens, expr.node, expr.current)

\* the PAREN_OPEN branch with the closing parenthesis optional
PrimaryGroupingNoExpect(tokens, current) ==
    LET expr == term(tokens, current)
    IN IF expr.thrown THEN expr
       ELSE IF peek(tokens, expr.current).type = "PAREN_CLOSE"
            THEN Parsed(GroupingNode(expr.node), expr.current + 1)
            ELSE Parsed(GroupingNode(expr.node), expr.current)

\* the PAREN_OPEN branch of primary, entered with the cursor just past "("
PrimaryGrouping(tokens, current) ==
    LET expr == term(tokens, current)
    IN IF expr.thrown THEN expr
       ELSE LET close == expect(tokens, expr.current, "PAREN_CLOSE")
            IN IF close.thrown THEN close
               ELSE Parsed(GroupingNode(expr.node), close.current)

\* the match("DICE") branch of primary, entered with the cursor just past "d"
PrimaryBareDice(tokens, current) ==
    LET sides == expect(tokens, current, "NUMBER")
    IN IF sides.thrown THEN sides
       ELSE Parsed(DiceNode(1, peek(tokens, current).literal), sides.current)

primary(tokens, current) ==
    LET type == peek(tokens, current).type IN
    IF type = "DICE" \/ (type = "NUMBER" /\ LookaheadType(tokens, current) = "DICE")
    THEN dice(tokens, current)
    ELSE IF type = "NUMBER"
    THEN Parsed(NumberNode(peek(tokens, current).literal), current + 1)
    ELSE IF type = "DICE"
    THEN PrimaryBareDice(tokens, current + 1)
    ELSE IF type = "PAREN_OPEN"
    THEN PrimaryGrouping(tokens, current + 1)
    ELSE ParseError("Unexpected", type, peek(tokens, current).offset, current)

\* the tail of dice after numSides: an optional keep modifier and its count
DiceModifier(tokens, node, current) ==
    IF peek(tokens, current).type \in {"KEEP_HIGHEST", "KEEP_LOWEST"}
    THEN LET operator == peek(tokens, current).type
             right == primary(tokens, current + 1)
         IN IF right.thrown THEN right
            ELSE Parsed(DiceModifierNode(node, operator, right.node), right.current)
    ELSE Parsed(node, current)

dice(tokens, current) ==
    LET hasCount == peek(tokens, current).type = "NUMBER"
        numDice == IF hasCount THEN peek(tokens, current).literal ELSE 1
        afterCount == IF hasCount THEN current + 1 ELSE current
        d == expect(tokens, afterCount, "DICE")
    IN IF d.thrown THEN d
       ELSE LET sides == expect(tokens, d.current, "NUMBER")
            IN IF sides.thrown THEN sides
               ELSE DiceModifier(tokens, DiceNode(numDice, peek(tokens, d.current).literal),
                                 sides.current)

\* parse throwing where the source only warns
parseStrict(tokens) ==
    LET ast == term(tokens, 0)
    IN IF ~ast.thrown /\ peek(tokens, ast.current).type # "EOF"
       THEN ParseError("Unexpected", peek(tokens, ast.current).type,
                       peek(tokens, ast.current).offset, ast.current)
       ELSE ast

\* parse(tokens): a token left before EOF only draws a console warning
parse(tokens) == term(tokens, 0)

\* ------------------------------------------------------------------ evaluator

\* The caller's randomness source, a stateful function (max) => number that
\* returns a die face on every call.  It is a scripted source in the manner of
\* the tests' sequence(): the i-th call returns the i-th number of the script
\* whatever max is; so that it returns a number on every call, the script starts
\* again when it runs out.  calls logs the max argument of every call.
Random(script) == [script |-> script, calls |-> <<>>]

\* the value random(max) returns in state random
RandomValue(random) == random.script[(Len(random.calls) % Len(random.script)) + 1]

\* the source after random(max) has been called
RandomNext(random, max) == [random EXCEPT !.calls = Append(@, max)]

Result(result, hasRolls, rolls, explanation) ==
    [result |-> result, hasRolls |-> hasRolls, rolls |-> rolls, explanation |-> explanation]

Evaluated(result, random) == [result |-> result, random |-> random]

\* arr.reduce((a, b) => a + b, 0)
RECURSIVE sum(_)
sum(arr) == IF arr = <<>> THEN 0 ELSE arr[1] + sum(Tail(arr))

\* rolls.join(separator)
RECURSIVE Join(_, _)
Join(rolls, separator) ==
    IF rolls = <<>> THEN ""
    ELSE IF Len(rolls) = 1 THEN ToString(rolls[1])
    ELSE ToString(rolls[1]) \o separator \o Join(Tail(rolls), separator)

\* arr with x put at its place in the ascending order
RECURSIVE Insert(_, _)
Insert(arr, x) ==
    IF arr = <<>> THEN <<x>>
    ELSE IF x < arr[1] THEN <<x>> \o arr
    ELSE <<arr[1]>> \o Insert(Tail(arr), x)

\* rolls.toSorted((a, b) => a - b)
RECURSIVE toSorted(_)
toSorted(rolls) ==
    IF rolls = <<>> THEN <<>> ELSE Insert(toSorted(SubSeq(rolls, 1, Len(rolls) - 1)), rolls[Len(rolls)])

\* The position Array.prototype.slice derives from an argument x, for an array of
\* length n: ToIntegerOrInfinity(x), counted from the end when negative, clamped to 0..n.
RelativeIndex(x, n) ==
    IF x.d = 0 THEN (IF x.n > 0 THEN n ELSE 0)
    ELSE LET relative == Trunc(x)
         IN IF relative < 0 THEN Max(n + relative, 0) ELSE Min(relative, n)

\* rolls.slice(-count)
KeepHighestSlice(rolls, count) ==
    SubSeq(rolls, RelativeIndex(Negate(count), Len(rolls)) + 1, Len(rolls))

\* rolls.slice(0, count)
KeepLowestSlice(rolls, count) == SubSeq(rolls, 1, RelativeIndex(count, Len(rolls)))

\* Array.from({ length: numDice }, () => random(numSides)), rolls being those made so far
RECURSIVE RollDice(_, _, _, _)
RollDice(numDice, numSides, rolls, random) ==
    IF Len(rolls) >= numDice THEN [rolls |-> rolls, random |-> random]
    ELSE RollDice(numDice, numSides, Append(rolls, RandomValue(random)),
                  RandomNext(random, numSides))

EvaluateDice(node, random) ==
    LET rolled == RollDice(node.numDice, node.numSides, <<>>, random)
    IN Evaluated(Result(IntNum(sum(rolled.rolls)), TRUE, rolled.rolls,
                        "[" \o Join(rolled.rolls, " + ") \o "]"),
                 rolled.random)

\* the value and the symbol of a binary operator applied to two results
ApplyOperator(operator, left, right) ==
    CASE operator = "PLUS" -> [value |-> Plus(left, right), opExplanation |-> "+"]
      [] operator = "MINUS" -> [value |-> Minus(left, right), opExplanation |-> "-"]
      [] operator = "STAR" -> [value |-> Star(left, right), opExplanation |-> "*"]
      [] operator = "SLASH" -> [value |-> Slash(left, right), opExplanation |-> "/"]

\* the result of a keep modifier from the results of its two operands
ApplyModifier(operator, left, right) ==
    LET rolls == toSorted(left.rolls) IN
    CASE operator = "KEEP_HIGHEST" ->
           Result(IntNum(sum(KeepHighestSlice(rolls, right.result))), FALSE, <<>>,
                  left.explanation \o "kh" \o right.explanation)
      [] operator = "KEEP_LOWEST" ->
           Result(IntNum(sum(KeepLowestSlice(rolls, right.result))), FALSE, <<>>,
                  left.explanation \o "kl" \o right.explanation)

RECURSIVE evaluate(_, _)

\* case "BINARY_OP" evaluating the right operand first
EvaluateBinaryOpRightFirst(node, random) ==
    LET right == evaluate(node.right, random)
        left == evaluate(node.left, right.random)
        op == ApplyOperator(node.operator, left.result.result, right.result.result)
    IN Evaluated(Result(op.value, FALSE, <<>>,
                        left.result.explanation \o " " \o op.opExplanation \o " "
                            \o right.result.explanation),
                 left.random)

\* case "BINARY_OP": left, then right
EvaluateBinaryOp(node, random) ==
    LET left == evaluate(node.left, random)
        right == evaluate(node.right, left.random)
        op == ApplyOperator(node.operator, left.result.result, right.result.result)
    IN Evaluated(Result(op.value, FALSE, <<>>,
                        left.result.explanation \o " " \o op.opExplanation \o " "
                            \o right.result.explanation),
                 right.random)

\* case "DICE_BINARY_OP": the dice, then the keep count
EvaluateDiceBinaryOp(node, random) ==
    LET left == evaluate(node.left, random)
        right == evaluate(node.right, left.random)
    IN Evaluated(ApplyModifier(node.operator, left.result, right.result), right.random)

evaluate(node, random) ==
    CASE node.type = "NUMBER" ->
           Evaluated(Result(IntNum(node.value), FALSE, <<>>, ToString(node.value)), random)
      [] node.type = "DICE" -> EvaluateDice(node, random)
      [] node.type = "BINARY_OP" -> EvaluateBinaryOp(node, random)
      [] node.type = "DICE_BINARY_OP" -> EvaluateDiceBinaryOp(node, random)
      [] node.type = "GROUPING" ->
           LET result == evaluate(node.expression, random)
           IN Evaluated(Result(result.result.result, result.result.hasRolls,
                               result.result.rolls,
                               "(" \o result.result.explanation \o ")"),
                        result.random)

\* ------------------------------------------------------------------ facade

RECURSIVE countRolls(_)
countRolls(ast) ==
    CASE ast.type = "NUMBER" -> 1
      [] ast.type = "DICE" -> ast.numDice
      [] ast.type = "BINARY_OP" -> countRolls(ast.left) + countRolls(ast.right)
      [] ast.type = "DICE_BINARY_OP" -> countRolls(ast.left) + countRolls(ast.right)
      [] ast.type = "GROUPING" -> countRolls(ast.expression)
      [] OTHER -> 0

\* the option maxRolls: omitted, or a number
NoLimit == [given |-> FALSE, value |-> 0]

Limit(value) == [given |-> TRUE, value |-> value]

\* if (maxRolls): an omitted maxRolls is falsy, and so is the number 0
Truthy(maxRolls) == maxRolls.given /\ maxRolls.value # 0

\* the if (maxRolls) { ... } block of roll: whether it throws TooManyDiceError
LimitExceeded(ast, maxRolls) == Truthy(maxRolls) /\ countRolls(ast) > maxRolls.value

NoError == [name |-> "none"]

TooManyDiceError(count) == [name |-> "TooManyDiceError", dice |-> count]

NoResult == Result(NaN, FALSE, <<>>, "")

\* what a call of roll comes to: the Result returned or the error thrown, and the
\* randomness source as the call leaves it
Outcome(error, result, random) == [error |-> error, result |-> result, random |-> random]

roll(expression, random, maxRolls) ==
    LET lexed == lex(expression) IN
    IF lexed.thrown THEN Outcome(lexed.error, NoResult, random)
    ELSE LET parsed == parse(lexed.tokens) IN
         IF parsed.thrown THEN Outcome(parsed.error, NoResult, random)
         ELSE IF LimitExceeded(parsed.node, maxRolls)
         THEN Outcome(TooManyDiceError(countRolls(parsed.node)), NoResult, random)
         ELSE LET evaluated == evaluate(parsed.node, random)
              IN Outcome(NoError, evaluated.result, evaluated.random)

\* ------------------------------------------------------------------ one call of roll

VARIABLES
    expression,  \* the argument expression
    random,      \* the option random: the caller's source and the calls made to it
    maxRolls,    \* the option maxRolls
    pc,          \* where the call is: "lex", "parse", "limit", "evaluate", "returned", "thrown"
    tokens,      \* const tokens = lex(expression)
    current,     \* the parser's cursor when parse returned or threw
    ast,         \* const ast = parse(tokens)
    result,      \* the Result returned
    error        \* the error thrown

vars == <<expression, random, maxRolls, pc, tokens, current, ast, result, error>>

\* the state on entry to roll(expression, { random, maxRolls })
Call(e, script, limit) ==
    /\ expression = e
    /\ random = Random(script)
    /\ maxRolls = limit
    /\ pc = "lex"
    /\ tokens = <<>>
    /\ current = 0
    /\ ast = NoNode
    /\ result = NoResult
    /\ error = NoError

\* const tokens = lex(expression)
Lex ==
    /\ pc = "lex"
    /\ LET lexed == lex(expression)
       IN /\ tokens' = lexed.tokens
          /\ error' = IF lexed.thrown THEN lexed.error ELSE error
          /\ pc' = IF lexed.thrown THEN "thrown" ELSE "parse"
    /\ UNCHANGED <<expression, random, maxRolls, current, ast, result>>

\* const ast = parse(tokens)
Parse ==
    /\ pc = "parse"
    /\ LET parsed == parse(tokens)
       IN /\ ast' = parsed.node
          /\ current' = parsed.current
          /\ error' = IF parsed.thrown THEN parsed.error ELSE error
          /\ pc' = IF parsed.thrown THEN "thrown" ELSE "limit"
    /\ UNCHANGED <<expression, random, maxRolls, tokens, result>>

\* if (maxRolls) { if (countRolls(ast) > maxRolls) throw new TooManyDiceError(rolls) }
CheckLimit ==
    /\ pc = "limit"
    /\ error' = IF LimitExceeded(ast, maxRolls) THEN TooManyDiceError(countRolls(ast)) ELSE error
    /\ pc' = IF LimitExceeded(ast, maxRolls) THEN "thrown" ELSE "evaluate"
    /\ UNCHANGED <<expression, random, maxRolls, tokens, current, ast, result>>

\* const result = evaluate(ast, random); return result
Evaluate ==
    /\ pc = "evaluate"
    /\ LET evaluated == evaluate(ast, random)
       IN /\ result' = evaluated.result
          /\ random' = evaluated.random
    /\ pc' = "returned"
    /\ UNCHANGED <<expression, maxRolls, tokens, current, ast, error>>

Next == Lex \/ Parse \/ CheckLimit \/ Evaluate

\* ------------------------------------------------------------------ inputs

\* all sequences over S of length at most n
RECURSIVE SeqsUpTo(_, _)
SeqsUpTo(S, n) ==
    IF n = 0 THEN {<<>>}
    ELSE LET shorter == SeqsUpTo(S, n - 1)
         IN shorter \cup {Append(q, c) : q \in {r \in shorter : Len(r) = n - 1}, c \in S}

MaxLen == 4

Alphabet == {" ", "0", "1", "2", "d", "+", "(", ")", "k", "h", "l", "@"}

Expressions == SeqsUpTo(Alphabet, MaxLen)

\* every string over Alphabet up to MaxLen characters, with and without a limit
Init == \E e \in Expressions, limit \in {NoLimit, Limit(1)} : Call(e, <<2, 1>>, limit)

Spec == Init /\ [][Next]_vars

\* ---- arithmetic expressions

MaxArithLen == 7

ArithDigits == {"0", "3"}

ArithOperators == {"+", "-", "*", "/"}

\* The arithmetic expressions of exactly n characters, table[i] being those of i
\* characters for every i < n: a literal, a parenthesised expression, or two
\* expressions joined by an operator.
ArithOfLen(table, n) ==
    {q \in SeqsUpTo(ArithDigits, n) : Len(q) = n}
    \cup (IF n >= 3 THEN {<<"(">> \o e \o <<")">> : e \in table[n - 2]} ELSE {})
    \cup UNION {{l \o <<op>> \o r : l \in table[i], r \in table[n - 1 - i], op \in ArithOperators} :
                i \in 1..(n - 2)}

RECURSIVE ArithTable(_, _)
ArithTable(table, n) ==
    IF Len(table) >= n THEN table
    ELSE ArithTable(Append(table, ArithOfLen(table, Len(table) + 1)), n)

ArithExpressions ==
    LET table == ArithTable(<<>>, MaxArithLen) IN UNION {table[n] : n \in 1..MaxArithLen}

\* every arithmetic expression up to MaxArithLen characters, with the default options
InitArith == \E e \in ArithExpressions : Call(e, <<2, 1>>, NoLimit)

SpecArith == InitArith /\ [][Next]_vars

\* ---- dice expressions

MaxDigit == 3

DigitChar(k) == CHOOSE char \in DigitChars : DigitValue(char) = k

\* the one-digit literals 0..MaxDigit
Literals == {<<DigitChar(k)>> : k \in 0..MaxDigit}

\* dS
BareDice == {<<"d">> \o s : s \in Literals}

\* dS and NdS
DiceTerms == BareDice \cup {n \o <<"d">> \o s : n \in Literals, s \in Literals}

\* a dice term keeping its highest or lowest K, K a literal or itself a roll
KeptOf(terms, counts) ==
    {t \o keep \o c : t \in terms, keep \in {<<"k", "h">>, <<"k", "l">>}, c \in counts}

Operands == Literals \cup DiceTerms

DiceExpressions ==
    Operands
    \cup KeptOf(DiceTerms, Literals \cup BareDice)
    \cup {l \o <<op>> \o r : l \in Operands, r \in Operands, op \in {"+", "*"}}
    \cup {<<"(">> \o l \o <<")", "-">> \o r : l \in BareDice, r \in BareDice}
    \cup {l \o <<"+">> \o r : l \in KeptOf(DiceTerms, BareDice), r \in BareDice}

\* what the caller's source yields
Faces == {1, 2, 5}

Scripts == {<<a, b, c>> : a \in Faces, b \in Faces, c \in Faces}

Limits == {NoLimit, Limit(0), Limit(2)}

\* dice expressions of digits up to MaxDigit, under every script and limit
InitDice == \E e \in DiceExpressions, script \in Scripts, limit \in Limits : Call(e, script, limit)

SpecDice == InitDice /\ [][Next]_vars

\* ------------------------------------------------------------------ properties

Returned == pc = "returned"

Thrown == pc = "thrown"

Finished == Returned \/ Thrown

\* lex has returned its tokens
Lexed == pc \in {"parse", "limit", "evaluate", "returned"} \/ (Thrown /\ error.name # "DiceNotationError")

\* parse has returned its tree
ParsedOk == pc \in {"limit", "evaluate", "returned"} \/ (Thrown /\ error.name = "TooManyDiceError")

\* the smallest element of a non-empty set of integers
Least(S) == CHOOSE x \in S : \A y \in S : x <= y

\* ---- C6

RecognizedChars ==
    WhitespaceChars \cup DigitChars \cup {"d", "+", "-", "*", "/", "(", ")", "k", "h", "l"}

\* the character at offset i of e is a lexical fault: a character of no token, or a
\* k that neither h nor l follows
IsFault(e, i) ==
    \/ e[i + 1] \notin RecognizedChars
    \/ e[i + 1] = "k" /\ CharAt(e, i + 1) \notin {"h", "l"}

Faults(e) == {i \in 0..(Len(e) - 1) : IsFault(e, i)}

\* the offset the claim gives the error of the leftmost fault
FaultOffset(e) ==
    LET i == Least(Faults(e)) IN IF e[i + 1] = "k" THEN i + 1 ELSE i

\* C6: an expression with a lexical fault makes roll fail with a DiceNotationError
\* for the leftmost fault, at that fault's offset (just after a dangling k), before
\* anything is parsed and before random is called.
C6_FirstLexicalFault ==
    (pc # "lex" /\ Faults(expression) # {}) =>
        /\ Thrown
        /\ error.name = "DiceNotationError"
        /\ error.offset = FaultOffset(expression)
        /\ error.expression = expression
        /\ ast = NoNode /\ current = 0 /\ random.calls = <<>> /\ result = NoResult

\* a dangling k followed later by a second fault has been reported at the offset
\* just after the k
C6_Witness ==
    /\ Thrown /\ error.name = "DiceNotationError"
    /\ Cardinality(Faults(expression)) >= 2
    /\ expression[Least(Faults(expression)) + 1] = "k"
    /\ Least(Faults(expression)) + 1 \notin Faults(expression)
    /\ error.offset = Least(Faults(expression)) + 1

\* ---- C10

\* The offsets at which the tokens of a lexically valid e start: every character
\* that is not whitespace, does not continue a run of digits and is not the h or
\* l of a kh or kl.
TokenStarts(e) ==
    {i \in 0..(Len(e) - 1) :
        /\ e[i + 1] \notin WhitespaceChars
        /\ ~(i > 0 /\ isDigit(e[i + 1]) /\ isDigit(e[i]))
        /\ ~(i > 0 /\ e[i + 1] \in {"h", "l"} /\ e[i] = "k")}

\* the offset at which token k (counted from 0) of e starts
StartOf(e, k) ==
    CHOOSE i \in TokenStarts(e) : Cardinality({j \in TokenStarts(e) : j < i}) = k

\* C10: the offset of every token lex returns is the index of the token's first
\* character (the k of kh and kl), and the offset of EOF is the length of the source.
C10_TokenOffsets ==
    Lexed =>
        /\ Len(tokens) = Cardinality(TokenStarts(expression)) + 1
        /\ \A k \in 0..(Len(tokens) - 2) : tokens[k + 1].offset = StartOf(expression, k)
        /\ tokens[Len(tokens)].type = "EOF"
        /\ tokens[Len(tokens)].offset = Len(expression)

\* ---- C9

\* the DICE nodes of a tree
RECURSIVE DiceNodes(_)
DiceNodes(node) ==
    CASE node.type = "DICE" -> {node}
      [] node.type \in {"BINARY_OP", "DICE_BINARY_OP"} ->
           DiceNodes(node.left) \cup DiceNodes(node.right)
      [] node.type = "GROUPING" -> DiceNodes(node.expression)
      [] OTHER -> {}

\* C9: every DICE node of a tree parse returns has numDice >= 1 and numSides >= 1.
C9_DicePositive ==
    ParsedOk => \A node \in DiceNodes(ast) : node.numDice >= 1 /\ node.numSides >= 1

\* ---- C4

\* C4: countRolls(ast) is the number of calls evaluate(ast, random) makes to random.
C4_CountIsCalls == Returned => countRolls(ast) = Len(random.calls)

\* ---- C7

\* The parentheses of a token sequence that have no partner, by the usual matching:
\* ts[i] onwards is scanned with the indices of the "(" still open in stack.
RECURSIVE ScanParens(_, _, _, _)
ScanParens(ts, i, stack, closes) ==
    IF i > Len(ts) THEN [opens |-> {stack[j] : j \in 1..Len(stack)}, closes |-> closes]
    ELSE IF ts[i].type = "PAREN_OPEN" THEN ScanParens(ts, i + 1, Append(stack, i - 1), closes)
    ELSE IF ts[i].type = "PAREN_CLOSE"
    THEN IF stack = <<>> THEN ScanParens(ts, i + 1, stack, closes \cup {i - 1})
         ELSE ScanParens(ts, i + 1, SubSeq(stack, 1, Len(stack) - 1), closes)
    ELSE ScanParens(ts, i + 1, stack, closes)

\* the indices of the "(" tokens without a matching ")"
UnmatchedOpens(ts) == ScanParens(ts, 1, <<>>, {}).opens

\* the indices of the ")" tokens without a matching "("
UnmatchedCloses(ts) == ScanParens(ts, 1, <<>>, {}).closes

Unbalanced(ts) == UnmatchedOpens(ts) # {} \/ UnmatchedCloses(ts) # {}

ParseFailed == Thrown /\ error.name = "Error"

\* C7 as claimed: every (lexically valid) expression with an unmatched "(" or an
\* unmatched ")" makes roll fail with a parse error.
C7_UnbalancedFails ==
    (Lexed /\ pc # "parse" /\ Unbalanced(tokens)) => ParseFailed

\* C7 as amended: roll fails with a parse error, and returns nothing, whenever the
\* parser has consumed a "(" that has no matching ")"; an unbalanced expression
\* that parses has its unbalanced parenthesis in the input left after the
\* top-level term.
C7_ConsumedOpenFails ==
    (Lexed /\ pc # "parse") =>
        /\ (\E i \in UnmatchedOpens(tokens) : i < current) =>
               (ParseFailed /\ result = NoResult /\ ast = NoNode)
        /\ (Unbalanced(tokens) /\ ~ParseFailed) =>
               /\ peek(tokens, current).type # "EOF"
               /\ \A i \in UnmatchedOpens(tokens) \cup UnmatchedCloses(tokens) : i >= current

\* "(" then a complete term, then the end of input: the missing ")" has been reported
C7_Witness ==
    /\ ParseFailed
    /\ \E i \in UnmatchedOpens(tokens) : i < current
    /\ peek(tokens, current).type = "EOF"
    /\ error.message = "Expected" /\ error.type = "PAREN_CLOSE"
    /\ Len(tokens) >= 5

\* ---- C8

\* e cut just before the first character of its token k
TruncatedBefore(e, k) == SubSeq(e, 1, StartOf(e, k))

\* the top-level term of the tokens ended at a token that is not EOF
TrailingInput ==
    /\ Lexed /\ pc # "parse"
    /\ ~term(tokens, 0).thrown
    /\ peek(tokens, term(tokens, 0).current).type # "EOF"

\* C8: when the top-level term ends at a token that is not EOF, parse does not
\* fail, and roll ends as it does for the expression cut just before that token:
\* the same Result or error, after the same calls to random.
C8_TrailingIgnored ==
    TrailingInput =>
        /\ ~ParseFailed
        /\ current = term(tokens, 0).current
        /\ Finished =>
               Outcome(error, result, random)
                   = roll(TruncatedBefore(expression, current), Random(random.script), maxRolls)

\* a dice term was rolled and returned although a token follows it
C8_Witness ==
    /\ TrailingInput /\ Returned
    /\ random.calls # <<>>
    /\ result.hasRolls

\* ---- C1

\* the number of "(" less the number of ")" among the first i characters of e
RECURSIVE Depth(_, _)
Depth(e, i) ==
    IF i = 0 THEN 0
    ELSE Depth(e, i - 1) + (IF e[i] = "(" THEN 1 ELSE IF e[i] = ")" THEN -1 ELSE 0)

\* the positions of e that hold one of ops outside every parenthesis
TopLevel(e, ops) == {i \in 1..Len(e) : e[i] \in ops /\ Depth(e, i - 1) = 0}

Greatest(S) == CHOOSE x \in S : \A y \in S : x >= y

\* the decimal value of a run of digits
RECURSIVE Decimal(_)
Decimal(digits) ==
    IF digits = <<>> THEN 0
    ELSE 10 * Decimal(SubSeq(digits, 1, Len(digits) - 1)) + DigitValue(digits[Len(digits)])

Invalid == [valid |-> FALSE, defined |-> FALSE, n |-> 0, d |-> 1]

\* the fraction a op b of two fractions n/d, as school arithmetic has it
Combine(op, a, b) ==
    IF ~(a.valid /\ b.valid) THEN Invalid
    ELSE IF ~(a.defined /\ b.defined) \/ (op = "/" /\ b.n = 0)
    THEN [valid |-> TRUE, defined |-> FALSE, n |-> 0, d |-> 1]
    ELSE CASE op = "+" -> [valid |-> TRUE, defined |-> TRUE, n |-> a.n * b.d + b.n * a.d, d |-> a.d * b.d]
           [] op = "-" -> [valid |-> TRUE, defined |-> TRUE, n |-> a.n * b.d - b.n * a.d, d |-> a.d * b.d]
           [] op = "*" -> [valid |-> TRUE, defined |-> TRUE, n |-> a.n * b.n, d |-> a.d * b.d]
           [] op = "/" -> [valid |-> TRUE, defined |-> TRUE, n |-> a.n * b.d, d |-> a.d * b.n]

\* The value arithmetic gives the text e, read with the usual conventions: the
\* last + or - outside parentheses splits e into (everything before) op (the rest),
\* failing that the last * or /, failing that e is a parenthesised expression or
\* a literal.  valid: e is such an expression; defined: no division by zero.
RECURSIVE Arithmetic(_)
Arithmetic(e) ==
    LET additive == TopLevel(e, {"+", "-"})
        multiplicative == TopLevel(e, {"*", "/"})
        SplitAt(i) == Combine(e[i], Arithmetic(SubSeq(e, 1, i - 1)),
                              Arithmetic(SubSeq(e, i + 1, Len(e))))
    IN IF e = <<>> THEN Invalid
       ELSE IF additive # {} THEN SplitAt(Greatest(additive))
       ELSE IF multiplicative # {} THEN SplitAt(Greatest(multiplicative))
       ELSE IF Len(e) >= 3 /\ e[1] = "(" /\ e[Len(e)] = ")"
       THEN Arithmetic(SubSeq(e, 2, Len(e) - 1))
       ELSE IF \A i \in 1..Len(e) : isDigit(e[i])
       THEN [valid |-> TRUE, defined |-> TRUE, n |-> Decimal(e), d |-> 1]
       ELSE Invalid

\* C1: roll returns, for every expression of integer literals, + - * / and
\* parentheses, the value arithmetic gives it with * and / binding tighter than
\* + and -, operators of one level grouping from the left, parentheses first.
C1_Arithmetic ==
    Arithmetic(expression).valid =>
        /\ ~Thrown
        /\ (Returned /\ Arithmetic(expression).defined) =>
               /\ result.result.d # 0
               /\ result.result.n * Arithmetic(expression).d
                      = Arithmetic(expression).n * result.result.d
        /\ Returned => random.calls = <<>>

\* 3-3/3/3 has come to 3 - ((3 / 3) / 3) = 8/3
C1_Witness ==
    /\ Returned
    /\ expression = <<"3", "-", "3", "/", "3", "/", "3">>
    /\ Arithmetic(expression).valid /\ Arithmetic(expression).defined
    /\ result.result = [n |-> 8, d |-> 3]

\* ---- C2

\* the i-th number the scripted source yields
Yield(i) == random.script[((i - 1) % Len(random.script)) + 1]

\* the numbers the source yields on its calls from..(from + n - 1), in order
Yields(from, n) == [i \in 1..n |-> Yield(from + i - 1)]

\* n copies of x
Copies(n, x) == [i \in 1..n |-> x]

\* The calls the tokens ts[1..upto] ask for, read from left to right: each d
\* token asks for as many calls as the number before it says (one if there is
\* none), each with the number after it as the argument.
RECURSIVE CallsInSourceOrder(_, _)
CallsInSourceOrder(ts, upto) ==
    IF upto = 0 THEN <<>>
    ELSE CallsInSourceOrder(ts, upto - 1)
         \o (IF ts[upto].type = "DICE"
             THEN Copies(IF upto > 1 /\ ts[upto - 1].type = "NUMBER"
                         THEN ts[upto - 1].literal ELSE 1,
                         ts[upto + 1].literal)
             ELSE <<>>)

\* DICE <operator> DICE
TwoDice(node) == node.left.type = "DICE" /\ node.right.type = "DICE"

\* C2: random is called in source order, left to right: numDice consecutive calls
\* of random(numSides) per dice term, a binary operator's left operand before its
\* right, a dice term before its keep count; so the i-th number of a sequence
\* source is the outcome of the i-th die in source order.
C2_SourceOrder ==
    Returned =>
        /\ random.calls = CallsInSourceOrder(tokens, current)
        /\ result.hasRolls => result.rolls = Yields(1, Len(random.calls))
        /\ (ast.type = "BINARY_OP" /\ TwoDice(ast)) =>
               result.result =
                   ApplyOperator(ast.operator,
                                 IntNum(sum(Yields(1, ast.left.numDice))),
                                 IntNum(sum(Yields(ast.left.numDice + 1, ast.right.numDice)))).value
        /\ (ast.type = "DICE_BINARY_OP" /\ TwoDice(ast)) =>
               result.result =
                   ApplyModifier(ast.operator,
                                 Result(NaN, TRUE, Yields(1, ast.left.numDice), ""),
                                 Result(IntNum(sum(Yields(ast.left.numDice + 1, ast.right.numDice))),
                                        TRUE, <<>>, "")).result

\* 2d3+d2 on the source 1, 2, 5: two calls random(3), then one random(2); 1 + 2 + 5 = 8
C2_Witness ==
    /\ Returned
    /\ expression = <<"2", "d", "3", "+", "d", "2">>
    /\ random.script = <<1, 2, 5>>
    /\ random.calls = <<3, 3, 2>>
    /\ result.result = IntNum(8)

\* ---- C3

\* the sum of the m largest (smallest) of the numbers in rolls
RECURSIVE SumOfLargest(_, _), SumOfSmallest(_, _)

\* rolls without its element at position i
Without(rolls, i) == SubSeq(rolls, 1, i - 1) \o SubSeq(rolls, i + 1, Len(rolls))

SumOfLargest(rolls, m) ==
    IF m = 0 \/ rolls = <<>> THEN 0
    ELSE LET i == CHOOSE i \in 1..Len(rolls) : \A j \in 1..Len(rolls) : rolls[i] >= rolls[j]
         IN rolls[i] + SumOfLargest(Without(rolls, i), m - 1)

SumOfSmallest(rolls, m) ==
    IF m = 0 \/ rolls = <<>> THEN 0
    ELSE LET i == CHOOSE i \in 1..Len(rolls) : \A j \in 1..Len(rolls) : rolls[i] <= rolls[j]
         IN rolls[i] + SumOfSmallest(Without(rolls, i), m - 1)

\* the keep count of a modifier whose count is a literal or a dice term
KeepCount(node) ==
    IF node.right.type = "NUMBER" THEN node.right.value
    ELSE sum(Yields(node.left.numDice + 1, node.right.numDice))

\* C3: with n outcomes and a keep count k >= 0, kh gives the sum of the min(k, n)
\* largest outcomes and kl the sum of the min(k, n) smallest: 0 when k = 0.
C3_KeepSums ==
    (Returned /\ ast.type = "DICE_BINARY_OP" /\ ast.right.type \in {"NUMBER", "DICE"}) =>
        LET rolls == Yields(1, ast.left.numDice)
            kept == Min(KeepCount(ast), Len(rolls))
        IN result.result = IntNum(IF ast.operator = "KEEP_HIGHEST"
                                  THEN SumOfLargest(rolls, kept)
                                  ELSE SumOfSmallest(rolls, kept))

\* ---- C5

\* C5: with maxRolls given, 0 included, roll throws TooManyDiceError with the
\* count when countRolls(ast) > maxRolls, without calling random, and evaluates
\* the expression otherwise.
C5_LimitEnforced ==
    (Finished /\ ParsedOk /\ maxRolls.given) =>
        IF countRolls(ast) > maxRolls.value
        THEN Thrown /\ error = TooManyDiceError(countRolls(ast)) /\ random.calls = <<>>
        ELSE Returned /\ result = evaluate(ast, Random(random.script)).result

====
